---- MODULE Spec2Model ----
(***************************************************************************)
(* Model of the CAN communication service of can-bridge (src/main.go):     *)
(* Service.Initialize, Service.Start, Service.Stop and main, together with *)
(* the collaborators they drive (Interface Setup Manager, Interface        *)
(* Manager, Watchdog, HTTP server).  The collaborators whose code is not   *)
(* part of main.go are modelled from their contracts.                      *)
(***************************************************************************)
EXTENDS Naturals, Sequences, FiniteSets, TLC

VARIABLES
    CanPorts,      \* s.config.CanPorts: the ordered list of configured names
    pc,            \* position of the main goroutine
    idx,           \* loop index of the setup loop / the teardown loop
    availErr,      \* GetAvailableInterfaces returned an error
    setupCalls,    \* SetupInterfaceWithRetry calls made by the setup loop, in order
    setupRes,      \* per name: outcome of the startup bring-up
    successCount,  \* successCount of setupCanInterfaces
    setupErrors,   \* setupErrors of setupCanInterfaces (names that failed), in order
    setupErr,      \* error returned by setupCanInterfaces
    initAllErr,    \* InitializeAll returned an aggregate error
    initRes,       \* what Service.Initialize returned
    handles,       \* Interface Manager registry: names holding a live handle
    nameLock,      \* Setup Manager: names with a bring-up or teardown in flight
    bringUps,      \* in-flight bring-ups, as <<actor, name>>
    teardowns,     \* in-flight teardowns (names)
    wdLoop,        \* watchdog polling loop: none, idle, polling, recovering, exited
    wdStopSignal,  \* Watchdog.Stop has signalled the loop to end
    wdIdx,         \* position of the current poll iteration in CanPorts
    wdRec,         \* per name: consecutive failure count (the watchdog record)
    httpState,     \* none, configured, spawned, listening, failed, closed
    reqs,          \* in-flight HTTP request handlers
    ctx,           \* shutdown timeout scope: none, active, expired
    stopStep,      \* the step Service.Stop is at
    stopPhase,     \* call, wait, loop, busy, hung
    stepLog,       \* calls and returns of the stop steps, in order
    wdStopRes,     \* result of Watchdog.Stop
    httpRes,       \* result of server.Shutdown
    tdCalls,       \* TeardownInterface calls made, in order
    tdRes,         \* per name: outcome of TeardownInterface
    wdStarts,      \* calls of Watchdog.Start made by Service.Start
    nodeFinder,    \* the NodeFinder goroutine was spawned
    attempts,      \* SetupInterfaceWithRetry: bring-up attempts made so far
    buRes,         \* SetupInterfaceWithRetry: none, pending, ok, fail
    statusOut,     \* what the last call of Service.GetStatus returned
    registry,      \* InterfaceRegistry: name -> current handle id, 0 for none
    live,          \* handles the Socket Provider opened and has not closed
    nextId,        \* id of the next handle the Socket Provider opens
    regLock,       \* holder of the registry's exclusive access, or none
    iaPc, iaIdx,   \* InterfaceManager.InitializeAll in flight
    roPc, roName, roOld,   \* InterfaceManager.Reopen in flight, the handle it found
    cuPc,          \* InterfaceManager.Cleanup in flight
    lastRead       \* what the last GetHandle returned

vars == <<CanPorts, pc, idx, availErr, setupCalls, setupRes, successCount,
          setupErrors, setupErr, initAllErr, initRes, handles, nameLock,
          bringUps, teardowns, wdLoop, wdStopSignal, wdIdx, wdRec,
          httpState, reqs, ctx, stopStep, stopPhase, stepLog, wdStopRes,
          httpRes, tdCalls, tdRes, wdStarts, nodeFinder,
          attempts, buRes, statusOut, registry, live, nextId, regLock,
          iaPc, iaIdx, roPc, roName, roOld, cuPc, lastRead>>

initVars  == <<availErr, setupCalls, setupRes, successCount, setupErrors,
               setupErr, initAllErr, initRes>>
wdVars    == <<wdLoop, wdStopSignal, wdIdx, wdRec>>
stopVars  == <<stopStep, stopPhase, stepLog, wdStopRes, httpRes, tdCalls, tdRes>>
lockVars  == <<nameLock, bringUps, teardowns>>
startVars == <<wdStarts, nodeFinder>>
retryVars == <<attempts, buRes>>
regVars == <<registry, live, nextId, regLock, iaPc, iaIdx, roPc, roName, roOld,
             cuPc, lastRead>>

\* ---------------------------------------------------------------- bounds
Names == {"can0", "can1", "can2"}
MaxRequests == 1          \* HTTP request handlers in flight at once
FailureThreshold == 2     \* consecutive failures that make an interface FAILED
MaxAttempts == 2          \* retry policy: bring-up attempts per interface
MaxHandles == 4           \* handles the Socket Provider opens in one run

\* The configured lists: the first names of AllPorts, in order (names are
\* unique, and the lists that differ by a renaming behave alike).
AllPorts == <<"can0", "can1", "can2">>
PortLists == {SubSeq(AllPorts, 1, n) : n \in 0..Len(AllPorts)}

Range(s) == {s[i] : i \in 1..Len(s)}

\* No call of GetStatus yet.
NoStatus ==
    [status |-> "none", activeInterfaces |-> {}, watchdogRunning |-> FALSE,
     interfaceStates |-> <<>>, queries |-> <<>>]

\* The Interface Manager's registry after NewInterfaceManager: empty.
RegInit ==
    /\ registry = [n \in Names |-> 0]
    /\ live = {}
    /\ nextId = 1
    /\ regLock = "none"
    /\ iaPc = "idle" /\ iaIdx = 1
    /\ roPc = "idle" /\ roName = "can0" /\ roOld = 0
    /\ cuPc = "idle"
    /\ lastRead = [name |-> "can0", handle |-> 0]

\* ---------------------------------------------------------------- Init
Init ==
    /\ CanPorts \in PortLists
    /\ pc = "parse"
    /\ idx = 1
    /\ availErr = FALSE
    /\ setupCalls = <<>>
    /\ setupRes = [n \in Names |-> "none"]
    /\ successCount = 0
    /\ setupErrors = <<>>
    /\ setupErr = "unset"
    /\ initAllErr = FALSE
    /\ initRes = "none"
    /\ handles = {}
    /\ nameLock = {}
    /\ bringUps = {}
    /\ teardowns = {}
    /\ wdLoop = "none"
    /\ wdStopSignal = FALSE
    /\ wdIdx = 1
    /\ wdRec = [n \in Names |-> 0]
    /\ httpState = "none"
    /\ reqs = {}
    /\ ctx = "none"
    /\ stopStep = "none"
    /\ stopPhase = "none"
    /\ stepLog = <<>>
    /\ wdStopRes = "none"
    /\ httpRes = "none"
    /\ tdCalls = <<>>
    /\ tdRes = [n \in Names |-> "none"]
    /\ wdStarts = 0
    /\ nodeFinder = FALSE
    /\ attempts = 0
    /\ buRes = "none"
    /\ statusOut = NoStatus /\ RegInit

\* ------------------------------------------------- Service.Initialize
\* ParseConfig, ValidateConfig and initializeComponents: an error of any of
\* them is returned by Initialize, and main exits with log.Fatalf.
ParseConfig ==
    /\ pc = "parse"
    /\ \E ok \in BOOLEAN :
         IF ok THEN pc' = "validate" /\ UNCHANGED initRes
               ELSE pc' = "fatal" /\ initRes' = "error"
    /\ UNCHANGED <<CanPorts, statusOut, regVars, startVars, retryVars, idx, availErr, setupCalls, setupRes, successCount,
                   setupErrors, setupErr, initAllErr, handles, lockVars,
                   wdVars, httpState, reqs, ctx, stopVars>>

ValidateConfig ==
    /\ pc = "validate"
    /\ \E ok \in BOOLEAN :
         IF ok THEN pc' = "components" /\ UNCHANGED initRes
               ELSE pc' = "fatal" /\ initRes' = "error"
    /\ UNCHANGED <<CanPorts, statusOut, regVars, startVars, retryVars, idx, availErr, setupCalls, setupRes, successCount,
                   setupErrors, setupErr, initAllErr, handles, lockVars,
                   wdVars, httpState, reqs, ctx, stopVars>>

initializeComponents ==
    /\ pc = "components"
    /\ \E ok \in BOOLEAN :
         IF ok THEN pc' = "list_avail" /\ UNCHANGED initRes
               ELSE pc' = "fatal" /\ initRes' = "error"
    /\ UNCHANGED <<CanPorts, statusOut, regVars, startVars, retryVars, idx, availErr, setupCalls, setupRes, successCount,
                   setupErrors, setupErr, initAllErr, handles, lockVars,
                   wdVars, httpState, reqs, ctx, stopVars>>

\* setupCanInterfaces, first part: list the available interfaces; an error
\* is logged only.
AfterListAvailable_Abort(err) == IF err THEN "init_all" ELSE "setup_loop"
AfterListAvailable(err) == "setup_loop"

GetAvailableInterfaces ==
    /\ pc = "list_avail"
    /\ \E err \in BOOLEAN :
         /\ availErr' = err
         /\ pc' = AfterListAvailable(err)
    /\ idx' = 1
    /\ UNCHANGED <<CanPorts, statusOut, regVars, startVars, retryVars, setupCalls, setupRes, successCount, setupErrors,
                   setupErr, initAllErr, initRes, handles, lockVars, wdVars,
                   httpState, reqs, ctx, stopVars>>

\* The setup loop goes on to the next name whether or not bring-up failed.
SetupLoopNext_Break(i, failed) == IF failed THEN Len(CanPorts) + 1 ELSE i + 1
SetupLoopNext(i, failed) == i + 1

\* Setup Manager: one bring-up or teardown in flight per name.
LockFree_None(n) == TRUE
LockFree(n) == n \notin nameLock

\* The loop body calls SetupInterfaceWithRetry(ifName).
SetupBegin ==
    /\ pc = "setup_loop"
    /\ idx <= Len(CanPorts)
    /\ LockFree(CanPorts[idx])
    /\ setupCalls' = Append(setupCalls, CanPorts[idx])
    /\ nameLock' = nameLock \cup {CanPorts[idx]}
    /\ bringUps' = bringUps \cup {<<"startup", CanPorts[idx]>>}
    /\ pc' = "setup_busy"
    /\ attempts' = 0
    /\ buRes' = "pending"
    /\ UNCHANGED <<CanPorts, statusOut, regVars, startVars, idx, availErr, setupRes, successCount, setupErrors,
                   setupErr, initAllErr, initRes, handles, teardowns, wdVars,
                   httpState, reqs, ctx, stopVars>>

\* SetupInterfaceWithRetry after its n-th attempt: done on success, a
\* SetupFailure once the maximum is exhausted, otherwise another attempt.
RetryOutcome_OffByOne(n, ok) ==
    IF ok THEN "ok" ELSE IF n + 1 >= MaxAttempts THEN "fail" ELSE "pending"

RetryOutcome(n, ok) ==
    IF ok THEN "ok" ELSE IF n >= MaxAttempts THEN "fail" ELSE "pending"

\* One bring-up attempt of the startup bring-up in flight.  (The bring-ups
\* started by the watchdog and by HTTP handlers are kept as one step.)
SetupAttempt ==
    /\ pc = "setup_busy"
    /\ buRes = "pending"
    /\ \E ok \in BOOLEAN :
         /\ attempts' = attempts + 1
         /\ buRes' = RetryOutcome(attempts + 1, ok)
    /\ UNCHANGED <<CanPorts, statusOut, regVars, startVars, pc, idx, initVars, handles, lockVars,
                   wdVars, httpState, reqs, ctx, stopVars>>

\* SetupInterfaceWithRetry returns: nil or a SetupFailure.
SetupEnd ==
    /\ pc = "setup_busy"
    /\ buRes \in {"ok", "fail"}
    /\ attempts' = 0
    /\ buRes' = "none"
    /\ \E ok \in {buRes = "ok"} :
         /\ setupRes' = [setupRes EXCEPT ![CanPorts[idx]] = IF ok THEN "ok" ELSE "fail"]
         /\ successCount' = IF ok THEN successCount + 1 ELSE successCount
         /\ setupErrors' = IF ok THEN setupErrors ELSE Append(setupErrors, CanPorts[idx])
         /\ idx' = SetupLoopNext(idx, ~ok)
    /\ nameLock' = nameLock \ {CanPorts[idx]}
    /\ bringUps' = bringUps \ {<<"startup", CanPorts[idx]>>}
    /\ pc' = "setup_loop"
    /\ UNCHANGED <<CanPorts, statusOut, regVars, startVars, availErr, setupCalls, setupErr, initAllErr, initRes,
                   handles, teardowns, wdVars, httpState, reqs, ctx, stopVars>>

\* The error setupCanInterfaces returns after the loop.
SetupResult_EmptyOk(count, errors) ==
    IF Len(errors) = 0 THEN "nil"
    ELSE IF count = 0 THEN "none_succeeded" ELSE "partial"

SetupResult(count, errors) ==
    IF count = 0 THEN "none_succeeded"
    ELSE IF Len(errors) > 0 THEN "partial" ELSE "nil"

SetupLoopDone ==
    /\ pc = "setup_loop"
    /\ idx > Len(CanPorts)
    /\ setupErr' = SetupResult(successCount, setupErrors)
    /\ pc' = "init_all"
    /\ UNCHANGED <<CanPorts, statusOut, regVars, startVars, retryVars, idx, availErr, setupCalls, setupRes, successCount,
                   setupErrors, initAllErr, initRes, handles, lockVars, wdVars,
                   httpState, reqs, ctx, stopVars>>

\* Interface Manager InitializeAll: opens a handle for the interfaces that are
\* UP; opening may fail per interface, and the failures are aggregated.
UpNames == {n \in Range(CanPorts) : setupRes[n] = "ok"}

InitializeAll ==
    /\ pc = "init_all"
    /\ \E opened \in SUBSET UpNames :
         /\ handles' = opened
         /\ initAllErr' = (opened # Range(CanPorts))
    /\ pc' = "http_setup"
    /\ UNCHANGED <<CanPorts, statusOut, regVars, startVars, retryVars, idx, availErr, setupCalls, setupRes, successCount,
                   setupErrors, setupErr, initRes, lockVars, wdVars, httpState,
                   reqs, ctx, stopVars>>

\* What Initialize returns once the components are initialized: the errors of
\* setupCanInterfaces and InitializeAll are logged as warnings only.
InitializeReturn_Propagate(sErr, iaErr) == IF sErr # "nil" THEN "error" ELSE "ok"
InitializeReturn(sErr, iaErr) == "ok"

\* setupHTTPServer only configures s.server; nothing listens yet.
ServerAfterSetup_Serving == "spawned"
ServerAfterSetup == "configured"

\* setupHTTPServer, then return.
setupHTTPServer ==
    /\ pc = "http_setup"
    /\ initRes' = InitializeReturn(setupErr, initAllErr)
    /\ IF initRes' = "ok"
         THEN pc' = "start" /\ httpState' = ServerAfterSetup
         ELSE pc' = "fatal" /\ UNCHANGED httpState
    /\ UNCHANGED <<CanPorts, statusOut, regVars, startVars, retryVars, idx, availErr, setupCalls, setupRes, successCount,
                   setupErrors, setupErr, initAllErr, handles, lockVars, wdVars,
                   reqs, ctx, stopVars>>

\* ------------------------------------------------------ Service.Start
\* Watchdog.Start may fail; then Start returns the error (and main exits with
\* log.Fatalf).  Otherwise the node finder and the HTTP server goroutines are
\* spawned and Start returns nil.
StartSpawnsWorkers_Always(wdOk) == TRUE
StartSpawnsWorkers(wdOk) == wdOk

Start ==
    /\ pc = "start"
    /\ wdStarts' = wdStarts + 1
    /\ \E ok \in BOOLEAN :
         /\ nodeFinder' = StartSpawnsWorkers(ok)
         /\ httpState' = IF StartSpawnsWorkers(ok) THEN "spawned" ELSE httpState
         /\ IF ok
               THEN /\ wdLoop' = "idle"
                    /\ pc' = "wait_signal"
                    \* the locals of Initialize and setupCanInterfaces are
                    \* out of scope while the service runs
                    /\ availErr' = FALSE
                    /\ setupCalls' = <<>>
                    /\ setupRes' = [n \in Names |-> "none"]
                    /\ successCount' = 0
                    /\ setupErrors' = <<>>
                    /\ setupErr' = "unset"
                    /\ initAllErr' = FALSE
               ELSE /\ pc' = "fatal_start"
                    /\ UNCHANGED <<wdLoop, availErr, setupCalls,
                                   setupRes, successCount, setupErrors,
                                   setupErr, initAllErr>>
    /\ UNCHANGED <<CanPorts, statusOut, regVars, retryVars, idx, initRes, handles, lockVars, wdStopSignal,
                   wdIdx, wdRec, reqs, ctx, stopVars>>

\* The HTTP goroutine: ListenAndServe starts serving, or fails (logged).
\* After Shutdown it returns ErrServerClosed without serving.
ListenAndServe ==
    /\ httpState = "spawned"
    /\ \E ok \in BOOLEAN : httpState' = IF ok THEN "listening" ELSE "failed"
    /\ UNCHANGED <<CanPorts, statusOut, regVars, startVars, retryVars, pc, idx, initVars, handles, lockVars, wdVars,
                   reqs, ctx, stopVars>>

\* -------------------------------------------------- HTTP request handlers
\* A request is accepted only while the server is listening: a send, or a
\* request that makes the handler bring an interface up.
HttpAccept ==
    /\ httpState = "listening"
    /\ Cardinality(reqs) < MaxRequests
    /\ \E r \in {[kind |-> "send", name |-> "", phase |-> "run"]} \cup
                {[kind |-> "setup", name |-> n, phase |-> "run"] : n \in Range(CanPorts)} :
         /\ r \notin reqs
         /\ reqs' = reqs \cup {r}
    /\ UNCHANGED <<CanPorts, statusOut, regVars, startVars, retryVars, pc, idx, initVars, handles, lockVars, wdVars,
                   httpState, ctx, stopVars>>

\* A send handler returns its response.
HttpComplete ==
    /\ \E r \in reqs :
         /\ r.kind = "send"
         /\ reqs' = reqs \ {r}
    /\ UNCHANGED <<CanPorts, statusOut, regVars, startVars, retryVars, pc, idx, initVars, handles, lockVars, wdVars,
                   httpState, ctx, stopVars>>

\* A handler that was given the Setup Manager starts a bring-up.
HttpBringUpBegin ==
    /\ \E r \in reqs :
         /\ r.kind = "setup" /\ r.phase = "run"
         /\ LockFree(r.name)
         /\ [r EXCEPT !.phase = "bringup"] \notin reqs
         /\ nameLock' = nameLock \cup {r.name}
         /\ bringUps' = bringUps \cup {<<"http", r.name>>}
         /\ reqs' = (reqs \ {r}) \cup {[r EXCEPT !.phase = "bringup"]}
    /\ UNCHANGED <<CanPorts, statusOut, regVars, startVars, retryVars, pc, idx, initVars, handles, teardowns, wdVars,
                   httpState, ctx, stopVars>>

HttpBringUpEnd ==
    /\ \E r \in reqs :
         /\ r.kind = "setup" /\ r.phase = "bringup"
         /\ nameLock' = nameLock \ {r.name}
         /\ bringUps' = bringUps \ {<<"http", r.name>>}
         /\ reqs' = reqs \ {r}
    /\ UNCHANGED <<CanPorts, statusOut, regVars, startVars, retryVars, pc, idx, initVars, handles, teardowns, wdVars,
                   httpState, ctx, stopVars>>

\* ------------------------------------------------------------- Watchdog
\* One poll iteration visits every configured interface in order.
WdPollBegin ==
    /\ wdLoop = "idle"
    /\ ~wdStopSignal
    /\ wdLoop' = "polling"
    /\ wdIdx' = 1
    /\ UNCHANGED <<CanPorts, statusOut, regVars, startVars, retryVars, pc, idx, initVars, handles, lockVars, wdStopSignal,
                   wdRec, httpState, reqs, ctx, stopVars>>

\* The state of the per-interface state machine, read off the record.
WdState(n) ==
    IF <<"watchdog", n>> \in bringUps THEN "RECOVERING"
    ELSE IF wdRec[n] = 0 THEN "HEALTHY"
    ELSE IF wdRec[n] < FailureThreshold THEN "SUSPECT"
    ELSE "FAILED"

\* The record after the poll of interface n: UP resets its consecutive
\* failure count, not UP increments it; no other interface is touched.
WdRecordAfter_Shared(rec, n, up) ==
    IF up THEN [rec EXCEPT ![n] = 0]
    ELSE [m \in Names |-> IF rec[m] < FailureThreshold THEN rec[m] + 1 ELSE rec[m]]

WdRecordAfter(rec, n, up) == [rec EXCEPT ![n] = IF up THEN 0 ELSE @ + 1]

\* Poll of one interface that is not FAILED, the OS reporting UP or not UP.
WdCheckWith(up) ==
    /\ wdLoop = "polling"
    /\ wdIdx <= Len(CanPorts)
    /\ wdRec[CanPorts[wdIdx]] < FailureThreshold
    /\ wdRec' = WdRecordAfter(wdRec, CanPorts[wdIdx], up)
    /\ wdIdx' = wdIdx + 1
    /\ UNCHANGED <<CanPorts, statusOut, regVars, startVars, retryVars, pc, idx, initVars, handles, lockVars, wdLoop,
                   wdStopSignal, httpState, reqs, ctx, stopVars>>

WdCheck == \E up \in BOOLEAN : WdCheckWith(up)

\* A FAILED interface: the watchdog re-runs bring-up ...
WdRecoverBegin ==
    /\ wdLoop = "polling"
    /\ wdIdx <= Len(CanPorts)
    /\ wdRec[CanPorts[wdIdx]] = FailureThreshold
    /\ LockFree(CanPorts[wdIdx])
    /\ nameLock' = nameLock \cup {CanPorts[wdIdx]}
    /\ bringUps' = bringUps \cup {<<"watchdog", CanPorts[wdIdx]>>}
    /\ wdLoop' = "recovering"
    /\ UNCHANGED <<CanPorts, statusOut, regVars, startVars, retryVars, pc, idx, initVars, handles, teardowns, wdStopSignal,
                   wdIdx, wdRec, httpState, reqs, ctx, stopVars>>

\* ... and on success reopens the handle; on failure the interface stays
\* FAILED until the next poll.
WdRecoverEnd ==
    /\ wdLoop = "recovering"
    /\ \E ok \in BOOLEAN :
         IF ok THEN /\ handles' = handles \cup {CanPorts[wdIdx]}
                    /\ wdRec' = [wdRec EXCEPT ![CanPorts[wdIdx]] = 0]
               ELSE UNCHANGED <<handles, wdRec>>
    /\ nameLock' = nameLock \ {CanPorts[wdIdx]}
    /\ bringUps' = bringUps \ {<<"watchdog", CanPorts[wdIdx]>>}
    /\ wdIdx' = wdIdx + 1
    /\ wdLoop' = "polling"
    /\ UNCHANGED <<CanPorts, statusOut, regVars, startVars, retryVars, pc, idx, initVars, teardowns, wdStopSignal,
                   httpState, reqs, ctx, stopVars>>

WdPollEnd ==
    /\ wdLoop = "polling"
    /\ wdIdx > Len(CanPorts)
    /\ wdLoop' = "idle"
    /\ UNCHANGED <<CanPorts, statusOut, regVars, startVars, retryVars, pc, idx, initVars, handles, lockVars, wdStopSignal,
                   wdIdx, wdRec, httpState, reqs, ctx, stopVars>>

\* The loop observes the stop signal between iterations and exits.
WdExit ==
    /\ wdLoop = "idle"
    /\ wdStopSignal
    /\ wdLoop' = "exited"
    /\ UNCHANGED <<CanPorts, statusOut, regVars, startVars, retryVars, pc, idx, initVars, handles, lockVars, wdStopSignal,
                   wdIdx, wdRec, httpState, reqs, ctx, stopVars>>

\* ----------------------------------------------------------------- main
\* main blocks on the signal channel; on SIGINT/SIGTERM it creates the
\* shutdown timeout scope and calls Service.Stop.
StopAfter_ReturnOnError(step, failed) ==
    IF failed THEN "done"
    ELSE CASE step = "begin"    -> "watchdog"
           [] step = "watchdog" -> "http"
           [] step = "http"     -> "cleanup"
           [] step = "cleanup"  -> "teardown"
           [] step = "teardown" -> "done"

StopAfter_TeardownFirst(step, failed) ==
    CASE step = "begin"    -> "watchdog"
      [] step = "watchdog" -> "http"
      [] step = "http"     -> "teardown"
      [] step = "teardown" -> "cleanup"
      [] step = "cleanup"  -> "done"

StopAfter_SkipHttp(step, failed) ==
    CASE step = "begin"    -> "watchdog"
      [] step = "watchdog" -> "cleanup"
      [] step = "http"     -> "cleanup"
      [] step = "cleanup"  -> "teardown"
      [] step = "teardown" -> "done"

StopAfter_CleanupFirst(step, failed) ==
    CASE step = "begin"    -> "cleanup"
      [] step = "cleanup"  -> "watchdog"
      [] step = "watchdog" -> "http"
      [] step = "http"     -> "teardown"
      [] step = "teardown" -> "done"

\* Service.Stop: the step that follows `step`; a failed step is only logged.
StopAfter(step, failed) ==
    CASE step = "begin"    -> "watchdog"
      [] step = "watchdog" -> "http"
      [] step = "http"     -> "cleanup"
      [] step = "cleanup"  -> "teardown"
      [] step = "teardown" -> "done"

Signal ==
    /\ pc = "wait_signal"
    /\ pc' = "stop"
    /\ ctx' = "active"
    /\ stopStep' = StopAfter("begin", FALSE)
    /\ stopPhase' = "call"
    /\ UNCHANGED <<CanPorts, statusOut, regVars, startVars, retryVars, idx, initVars, handles, lockVars, wdVars,
                   httpState, reqs, stepLog, wdStopRes, httpRes, tdCalls, tdRes>>

\* The shutdown timeout scope expires.
Timeout ==
    /\ pc = "stop"
    /\ ctx = "active"
    /\ ctx' = "expired"
    /\ UNCHANGED <<CanPorts, statusOut, regVars, startVars, retryVars, pc, idx, initVars, handles, lockVars, wdVars,
                   httpState, reqs, stopVars>>

\* --------------------------------------------------------- Service.Stop
\* s.watchdog.Stop(): signals the polling loop to end ...
StopWatchdogCall ==
    /\ pc = "stop" /\ stopStep = "watchdog" /\ stopPhase = "call"
    /\ wdStopSignal' = TRUE
    /\ stopPhase' = "wait"
    /\ stepLog' = Append(stepLog, <<"watchdog", "call">>)
    /\ UNCHANGED <<CanPorts, statusOut, regVars, startVars, retryVars, pc, idx, initVars, handles, lockVars, wdLoop,
                   wdIdx, wdRec, httpState, reqs, ctx, stopStep,
                   wdStopRes, httpRes, tdCalls, tdRes>>

\* ... and returns, with or without an error, once the loop has exited.
StopWatchdogReturn ==
    /\ pc = "stop" /\ stopStep = "watchdog" /\ stopPhase = "wait"
    /\ wdLoop = "exited"
    /\ \E err \in BOOLEAN :
         /\ wdStopRes' = IF err THEN "err" ELSE "ok"
         /\ stopStep' = StopAfter("watchdog", err)
    /\ stopPhase' = "call"
    /\ stepLog' = Append(stepLog, <<"watchdog", "return">>)
    /\ UNCHANGED <<CanPorts, statusOut, regVars, startVars, retryVars, pc, idx, initVars, handles, lockVars, wdVars,
                   httpState, reqs, ctx, httpRes, tdCalls, tdRes>>

\* s.server.Shutdown(ctx): closes the listeners ...
StopHttpCall ==
    /\ pc = "stop" /\ stopStep = "http" /\ stopPhase = "call"
    /\ httpState' = "closed"
    /\ stopPhase' = "wait"
    /\ stepLog' = Append(stepLog, <<"http", "call">>)
    /\ UNCHANGED <<CanPorts, statusOut, regVars, startVars, retryVars, pc, idx, initVars, handles, lockVars, wdVars,
                   reqs, ctx, stopStep, wdStopRes, httpRes, tdCalls, tdRes>>

\* ... and returns when no handler is in flight any more (nil, or the error of
\* closing a listener), or with the scope's error when ctx has expired.
ShutdownReturns(err) == reqs = {} \/ (ctx = "expired" /\ err)

StopHttpReturn ==
    /\ pc = "stop" /\ stopStep = "http" /\ stopPhase = "wait"
    /\ \E err \in BOOLEAN :
         /\ ShutdownReturns(err)
         /\ httpRes' = IF err THEN "err" ELSE "ok"
         /\ stopStep' = StopAfter("http", err)
    /\ stopPhase' = "call"
    /\ stepLog' = Append(stepLog, <<"http", "return">>)
    /\ UNCHANGED <<CanPorts, statusOut, regVars, startVars, retryVars, pc, idx, initVars, handles, lockVars, wdVars,
                   httpState, reqs, ctx, wdStopRes, tdCalls, tdRes>>

\* s.interfaceManager.Cleanup(): closes every live handle.
StopCleanupCall ==
    /\ pc = "stop" /\ stopStep = "cleanup" /\ stopPhase = "call"
    /\ stopPhase' = "wait"
    /\ stepLog' = Append(stepLog, <<"cleanup", "call">>)
    /\ UNCHANGED <<CanPorts, statusOut, regVars, startVars, retryVars, pc, idx, initVars, handles, lockVars, wdVars,
                   httpState, reqs, ctx, stopStep, wdStopRes, httpRes, tdCalls,
                   tdRes>>

StopCleanupReturn ==
    /\ pc = "stop" /\ stopStep = "cleanup" /\ stopPhase = "wait"
    /\ handles' = {}
    /\ stopStep' = StopAfter("cleanup", FALSE)
    /\ stopPhase' = "call"
    /\ stepLog' = Append(stepLog, <<"cleanup", "return">>)
    /\ UNCHANGED <<CanPorts, statusOut, regVars, startVars, retryVars, pc, idx, initVars, lockVars, wdVars, httpState,
                   reqs, ctx, wdStopRes, httpRes, tdCalls, tdRes>>

\* s.teardownCanInterfaces()
StopTeardownCall ==
    /\ pc = "stop" /\ stopStep = "teardown" /\ stopPhase = "call"
    /\ idx' = 1
    /\ stopPhase' = "loop"
    /\ stepLog' = Append(stepLog, <<"teardown", "call">>)
    /\ UNCHANGED <<CanPorts, statusOut, regVars, startVars, retryVars, pc, initVars, handles, lockVars, wdVars, httpState,
                   reqs, ctx, stopStep, wdStopRes, httpRes, tdCalls, tdRes>>

\* The teardown loop goes on to the next name whether or not teardown failed.
TeardownLoopNext_Break(i, failed) == IF failed THEN Len(CanPorts) + 1 ELSE i + 1
TeardownLoopNext(i, failed) == i + 1

\* The loop body calls TeardownInterface(ifName).
TeardownBegin ==
    /\ pc = "stop" /\ stopStep = "teardown" /\ stopPhase = "loop"
    /\ idx <= Len(CanPorts)
    /\ LockFree(CanPorts[idx])
    /\ nameLock' = nameLock \cup {CanPorts[idx]}
    /\ teardowns' = teardowns \cup {CanPorts[idx]}
    /\ tdCalls' = Append(tdCalls, CanPorts[idx])
    /\ stopPhase' = "busy"
    /\ UNCHANGED <<CanPorts, statusOut, regVars, startVars, retryVars, pc, idx, initVars, handles, bringUps, wdVars,
                   httpState, reqs, ctx, stopStep, stepLog, wdStopRes, httpRes,
                   tdRes>>

\* TeardownInterface returns: nil or a TeardownFailure (logged).
TeardownEnd ==
    /\ pc = "stop" /\ stopStep = "teardown" /\ stopPhase = "busy"
    /\ \E err \in BOOLEAN :
         /\ tdRes' = [tdRes EXCEPT ![CanPorts[idx]] = IF err THEN "err" ELSE "ok"]
         /\ idx' = TeardownLoopNext(idx, err)
    /\ nameLock' = nameLock \ {CanPorts[idx]}
    /\ teardowns' = teardowns \ {CanPorts[idx]}
    /\ stopPhase' = "loop"
    /\ UNCHANGED <<CanPorts, statusOut, regVars, startVars, retryVars, pc, initVars, handles, bringUps, wdVars, httpState,
                   reqs, ctx, stopStep, stepLog, wdStopRes, httpRes, tdCalls>>

StopTeardownReturn ==
    /\ pc = "stop" /\ stopStep = "teardown" /\ stopPhase = "loop"
    /\ idx > Len(CanPorts)
    /\ stopStep' = StopAfter("teardown", FALSE)
    /\ stopPhase' = "call"
    /\ stepLog' = Append(stepLog, <<"teardown", "return">>)
    /\ UNCHANGED <<CanPorts, statusOut, regVars, startVars, retryVars, pc, idx, initVars, handles, lockVars, wdVars,
                   httpState, reqs, ctx, wdStopRes, httpRes, tdCalls, tdRes>>

\* Stop returns nil and main returns.
StopReturn ==
    /\ pc = "stop" /\ stopStep = "done"
    /\ pc' = "exit"
    /\ UNCHANGED <<CanPorts, statusOut, regVars, startVars, retryVars, idx, initVars, handles, lockVars, wdVars,
                   httpState, reqs, ctx, stopVars>>

\* Watchdog.Stop, Cleanup and TeardownInterface take no timeout scope: a call
\* that never returns leaves Stop blocked in it.
StopStepHangs ==
    /\ pc = "stop"
    /\ \/ stopStep \in {"watchdog", "cleanup"} /\ stopPhase = "wait"
       \/ stopStep = "teardown" /\ stopPhase = "busy"
    /\ stopPhase' = "hung"
    /\ UNCHANGED <<CanPorts, statusOut, regVars, startVars, retryVars, pc, idx, initVars, handles, lockVars, wdVars,
                   httpState, reqs, ctx, stopStep, stepLog, wdStopRes, httpRes,
                   tdCalls, tdRes>>

\* ------------------------------------------------------- specification
MainProgress ==
    \/ ParseConfig \/ ValidateConfig \/ initializeComponents
    \/ GetAvailableInterfaces \/ SetupBegin \/ SetupAttempt \/ SetupEnd
    \/ SetupLoopDone
    \/ InitializeAll \/ setupHTTPServer \/ Start
    \/ StopWatchdogCall \/ StopWatchdogReturn \/ StopHttpCall \/ StopHttpReturn
    \/ StopCleanupCall \/ StopCleanupReturn \/ StopTeardownCall
    \/ TeardownBegin \/ TeardownEnd \/ StopTeardownReturn \/ StopReturn

WatchdogNext ==
    \/ WdPollBegin \/ WdCheck \/ WdRecoverBegin \/ WdRecoverEnd \/ WdPollEnd
    \/ WdExit

HandlerNext == HttpComplete \/ HttpBringUpBegin \/ HttpBringUpEnd

Next ==
    \/ MainProgress
    \/ Signal
    \/ StopStepHangs
    \/ Timeout
    \/ ListenAndServe
    \/ HttpAccept
    \/ HandlerNext
    \/ WatchdogNext

Spec == Init /\ [][Next]_vars

\* ---------------------------------------------------- Service.GetStatus
\* s.monitor is set by initializeComponents (after the Setup Manager).
MonitorSet == pc \notin {"parse", "validate", "components", "fatal"}

\* Monitor.GetSystemStatus: the names that are HEALTHY or hold a live handle,
\* and the watchdog running flag.
ActiveInterfaces ==
    {n \in Range(CanPorts) :
        n \in handles \/ (wdLoop \notin {"none", "exited"} /\ WdState(n) = "HEALTHY")}

WatchdogRunning == wdLoop \in {"idle", "polling", "recovering"}

\* The interfaceStates map: one entry per configured name, the state when
\* GetInterfaceState succeeded and an error entry when it failed.
InterfaceStates_SkipErrors(q) ==
    [n \in {m \in Range(CanPorts) : q[m] # "error"} |->
        [kind |-> "state", isUp |-> q[n] = "up"]]

InterfaceStates(q) ==
    [n \in Range(CanPorts) |->
        IF q[n] = "error" THEN [kind |-> "error", isUp |-> FALSE]
                          ELSE [kind |-> "state", isUp |-> q[n] = "up"]]

\* GetStatus with the outcomes q of the GetInterfaceState queries.
GetStatusResult(q) ==
    IF ~MonitorSet
      THEN [status |-> "not_initialized", activeInterfaces |-> {},
            watchdogRunning |-> FALSE, interfaceStates |-> <<>>, queries |-> <<>>]
      ELSE [status |-> "running", activeInterfaces |-> ActiveInterfaces,
            watchdogRunning |-> WatchdogRunning,
            interfaceStates |-> InterfaceStates(q), queries |-> q]

GetStatus ==
    /\ \E q \in [Range(CanPorts) -> {"up", "down", "error"}] :
         statusOut' = GetStatusResult(q)
    /\ UNCHANGED <<CanPorts, regVars, startVars, retryVars, pc, idx, initVars, handles,
                   lockVars, wdVars, httpState, reqs, ctx, stopVars>>

\* Status queries against the service before Initialize and while it runs.
StatusInit ==
    \/ Init
    \/ /\ CanPorts \in PortLists
       /\ pc = "wait_signal"
       /\ initRes = "ok"
       /\ handles \in SUBSET Range(CanPorts)
       /\ wdLoop = "idle"
       /\ wdRec \in {f \in [Names -> 0..FailureThreshold] :
                        \A n \in Names \ Range(CanPorts) : f[n] = 0}
       /\ httpState = "listening"
       /\ wdStarts = 1
       /\ nodeFinder = TRUE
       /\ idx = Len(CanPorts) + 1
       /\ availErr = FALSE /\ setupCalls = <<>>
       /\ setupRes = [n \in Names |-> "none"]
       /\ successCount = 0 /\ setupErrors = <<>> /\ setupErr = "unset"
       /\ initAllErr = FALSE
       /\ nameLock = {} /\ bringUps = {} /\ teardowns = {}
       /\ wdStopSignal = FALSE /\ wdIdx \in {1, Len(CanPorts) + 1}
       /\ reqs = {} /\ ctx = "none"
       /\ stopStep = "none" /\ stopPhase = "none" /\ stepLog = <<>>
       /\ wdStopRes = "none" /\ httpRes = "none" /\ tdCalls = <<>>
       /\ tdRes = [n \in Names |-> "none"]
       /\ attempts = 0 /\ buRes = "none"
       /\ statusOut = NoStatus /\ RegInit

StatusNext == GetStatus

StatusSpec == StatusInit /\ [][StatusNext]_vars

\* ---------------------------------------- Interface Manager's registry
\* The registry with handle identities: InitializeAll, Reopen and Cleanup
\* mutate it under its exclusive access, GetHandle reads it.
serviceVars ==
    <<CanPorts, statusOut, pc, idx, initVars, handles, lockVars, wdVars,
      httpState, reqs, ctx, stopVars, startVars, retryVars>>

RegLockFree_Always == TRUE

RegLockFree == regLock = "none"

LiveOf(n) == {h \in live : h[1] = n}

\* Socket Provider Open(n) and the registration of the handle.
OpenAndRegister(n) ==
    /\ nextId <= MaxHandles
    /\ live' = live \cup {<<n, nextId>>}
    /\ registry' = [registry EXCEPT ![n] = nextId]
    /\ nextId' = nextId + 1

InitializeAllBegin ==
    /\ iaPc = "idle"
    /\ RegLockFree
    /\ \A n \in Names : registry[n] = 0
    /\ regLock' = "ia"
    /\ iaPc' = "run"
    /\ iaIdx' = 1
    /\ UNCHANGED <<registry, live, nextId, roPc, roName, roOld, cuPc, lastRead,
                   serviceVars>>

\* One configured name: a handle is opened and registered when the interface
\* is UP, the name is skipped when it is not.
InitializeAllStep ==
    /\ iaPc = "run"
    /\ iaIdx <= Len(CanPorts)
    /\ \E up \in BOOLEAN :
         IF up THEN OpenAndRegister(CanPorts[iaIdx])
               ELSE UNCHANGED <<registry, live, nextId>>
    /\ iaIdx' = iaIdx + 1
    /\ UNCHANGED <<regLock, iaPc, roPc, roName, roOld, cuPc, lastRead, serviceVars>>

InitializeAllEnd ==
    /\ iaPc = "run"
    /\ iaIdx > Len(CanPorts)
    /\ iaPc' = "idle"
    /\ regLock' = "none"
    /\ UNCHANGED <<registry, live, nextId, iaIdx, roPc, roName, roOld, cuPc,
                   lastRead, serviceVars>>

ReopenBegin ==
    /\ roPc = "idle"
    /\ RegLockFree
    /\ \E n \in Range(CanPorts) :
         /\ roName' = n
         /\ roOld' = registry[n]
    /\ regLock' = "ro"
    /\ roPc' = "close"
    /\ UNCHANGED <<registry, live, nextId, iaPc, iaIdx, cuPc, lastRead, serviceVars>>

\* Closes the existing handle; the entry still names it until the new one is
\* registered.
ReopenClose ==
    /\ roPc = "close"
    /\ live' = live \ {<<roName, registry[roName]>>}
    /\ roPc' = "open"
    /\ UNCHANGED <<registry, nextId, regLock, iaPc, iaIdx, roName, roOld, cuPc,
                   lastRead, serviceVars>>

\* Opens the fresh handle, or fails with NotReady and leaves no entry.
ReopenOpen ==
    /\ roPc = "open"
    /\ \E up \in BOOLEAN :
         IF up THEN OpenAndRegister(roName)
               ELSE /\ registry' = [registry EXCEPT ![roName] = 0]
                    /\ UNCHANGED <<live, nextId>>
    /\ roPc' = "idle"
    /\ regLock' = "none"
    /\ UNCHANGED <<iaPc, iaIdx, roName, roOld, cuPc, lastRead, serviceVars>>

CleanupBegin ==
    /\ cuPc = "idle"
    /\ RegLockFree
    /\ regLock' = "cu"
    /\ cuPc' = "run"
    /\ UNCHANGED <<registry, live, nextId, iaPc, iaIdx, roPc, roName, roOld,
                   lastRead, serviceVars>>

\* Closes one registered handle and removes its entry.
CleanupStep ==
    /\ cuPc = "run"
    /\ \E n \in Names :
         /\ registry[n] # 0
         /\ live' = live \ {<<n, registry[n]>>}
         /\ registry' = [registry EXCEPT ![n] = 0]
    /\ UNCHANGED <<nextId, regLock, iaPc, iaIdx, roPc, roName, roOld, cuPc,
                   lastRead, serviceVars>>

CleanupEnd ==
    /\ cuPc = "run"
    /\ \A n \in Names : registry[n] = 0
    /\ cuPc' = "idle"
    /\ regLock' = "none"
    /\ UNCHANGED <<registry, live, nextId, iaPc, iaIdx, roPc, roName, roOld,
                   lastRead, serviceVars>>

\* GetHandle(n), also the lookup of Send and of the status snapshot.
GetHandle ==
    /\ RegLockFree
    /\ \E n \in Range(CanPorts) :
         lastRead' = [name |-> n, handle |-> registry[n]]
    /\ UNCHANGED <<registry, live, nextId, regLock, iaPc, iaIdx, roPc, roName,
                   roOld, cuPc, serviceVars>>

RegistryNext ==
    \/ InitializeAllBegin \/ InitializeAllStep \/ InitializeAllEnd
    \/ ReopenBegin \/ ReopenClose \/ ReopenOpen
    \/ CleanupBegin \/ CleanupStep \/ CleanupEnd
    \/ GetHandle

RegistrySpec == Init /\ [][RegistryNext]_vars

\* The service with three interfaces of which DownName reports not UP on
\* every poll and the other two report UP.
DownName == "can1"

WdCheckDown == WdCheckWith(CanPorts[wdIdx] # DownName)

WdDownInit == Init /\ CanPorts = AllPorts

WdDownNext ==
    \/ MainProgress
    \/ Signal
    \/ StopStepHangs
    \/ Timeout
    \/ ListenAndServe
    \/ HttpAccept
    \/ HandlerNext
    \/ WdPollBegin \/ WdCheckDown \/ WdRecoverBegin \/ WdRecoverEnd
    \/ WdPollEnd \/ WdExit

WdDownSpec == WdDownInit /\ [][WdDownNext]_vars

\* The goroutines are scheduled fairly, a goroutine waiting for the per-name
\* lock is not starved, and the timer of the timeout scope fires; the signal,
\* inbound requests and hangs are up to the environment.
FairSpec ==
    /\ Spec
    /\ WF_vars(MainProgress)
    /\ WF_vars(WatchdogNext)
    /\ WF_vars(HandlerNext)
    /\ SF_vars(TeardownBegin)
    /\ SF_vars(WdRecoverBegin)
    /\ SF_vars(HttpBringUpBegin)
    /\ WF_vars(ListenAndServe)
    /\ WF_vars(Timeout)

\* ============================================================== claims
IsPrefix(s, t) == Len(s) <= Len(t) /\ SubSeq(t, 1, Len(s)) = s

ExpectedStopLog ==
    <<<<"watchdog", "call">>, <<"watchdog", "return">>,
      <<"http", "call">>, <<"http", "return">>,
      <<"cleanup", "call">>, <<"cleanup", "return">>,
      <<"teardown", "call">>, <<"teardown", "return">>>>

Logged(step, what) == <<step, what>> \in Range(stepLog)

CleanupRunning == stopStep = "cleanup" /\ stopPhase \in {"wait", "hung"}
TeardownRunning == stopStep = "teardown" /\ stopPhase \in {"loop", "busy", "hung"}

\* C1: in Service.Stop the four steps start in the order watchdog stop, HTTP
\* shutdown, Cleanup, teardown, each only after the previous one returned; no
\* handle is closed by Cleanup before the watchdog stop returned and no
\* interface is torn down before Cleanup returned.
C1_StopOrder ==
    /\ IsPrefix(stepLog, ExpectedStopLog)
    /\ CleanupRunning => Logged("watchdog", "return")
    /\ (TeardownRunning \/ teardowns # {} \/ tdCalls # <<>>) => Logged("cleanup", "return")

C1_Witness ==
    /\ pc = "exit"
    /\ stepLog = ExpectedStopLog
    /\ tdCalls = AllPorts

\* C2: when Stop returns, Cleanup was invoked and TeardownInterface was
\* invoked for every configured interface, whichever of Watchdog.Stop,
\* server.Shutdown and the TeardownInterface calls returned an error.
C2_FailureDoesNotSkipSteps ==
    pc = "exit" =>
        /\ Logged("watchdog", "call")
        /\ Logged("http", "call")
        /\ Logged("cleanup", "return")
        /\ tdCalls = CanPorts

C2_Witness ==
    /\ pc = "exit"
    /\ wdStopRes = "err"
    /\ httpRes = "err"
    /\ CanPorts = AllPorts
    /\ \A n \in Names : tdRes[n] = "err"
    /\ Logged("cleanup", "return")
    /\ tdCalls = CanPorts

\* C3: when every configured interface fails bring-up, Initialize reports
\* failure and main does not go on to Service.Start.
C3_ZeroSuccessIsFatal ==
    (initRes # "none" /\ setupErr = "none_succeeded" /\ Len(CanPorts) > 0) =>
        (initRes = "error" /\ pc = "fatal")

\* C4: with a valid configuration and at least one interface brought up,
\* Initialize returns success, however many other interfaces failed and
\* whether or not InitializeAll reported an aggregate error.
C4_PartialSuccessNotFatal ==
    (initRes # "none" /\ successCount >= 1) => (initRes = "ok" /\ pc # "fatal")

C4_Witness ==
    /\ pc = "start"
    /\ initRes = "ok"
    /\ successCount = 1
    /\ Len(setupErrors) = 2
    /\ setupErr = "partial"
    /\ initAllErr

\* C5: the setup loop calls SetupInterfaceWithRetry exactly once for every
\* configured name, in configuration order, whether or not an earlier
\* bring-up failed.
C5_SetupLoopVisitsAll ==
    /\ pc = "setup_loop" => (idx <= Len(CanPorts) + 1 /\ setupCalls = SubSeq(CanPorts, 1, idx - 1))
    /\ pc = "setup_busy" => (idx <= Len(CanPorts) /\ setupCalls = SubSeq(CanPorts, 1, idx))
    /\ pc \in {"init_all", "http_setup", "start"} => setupCalls = CanPorts

C5_Witness ==
    /\ pc = "init_all"
    /\ CanPorts = AllPorts
    /\ setupRes[CanPorts[1]] = "fail"
    /\ setupRes[CanPorts[2]] = "fail"
    /\ setupRes[CanPorts[3]] = "ok"
    /\ setupCalls = CanPorts

\* C6: the teardown loop calls TeardownInterface exactly once for every
\* configured name, and a TeardownFailure does not stop the teardown of the
\* remaining names.
C6_TeardownLoopVisitsAll ==
    /\ (stopStep = "teardown" /\ stopPhase = "loop") =>
           (idx <= Len(CanPorts) + 1 /\ tdCalls = SubSeq(CanPorts, 1, idx - 1))
    /\ (stopStep = "teardown" /\ stopPhase = "busy") =>
           (idx <= Len(CanPorts) /\ tdCalls = SubSeq(CanPorts, 1, idx))
    /\ Logged("teardown", "return") =>
           (tdCalls = CanPorts /\ \A n \in Range(CanPorts) : tdRes[n] # "none")

C6_Witness ==
    /\ Logged("teardown", "return")
    /\ CanPorts = AllPorts
    /\ tdRes["can0"] = "ok"
    /\ tdRes["can1"] = "err"
    /\ tdRes["can2"] = "ok"
    /\ tdCalls = CanPorts

\* C7: once the shutdown timeout scope has expired, Stop gets past a step
\* that hangs and eventually returns.
C7_StopReturnsAfterDeadline == (ctx = "expired") ~> (pc = "exit")

WdQuiet == wdLoop = "exited" /\ \A n \in Names : <<"watchdog", n>> \notin bringUps

\* C8: once the watchdog stop step has returned, no poll iteration and no
\* recovery action runs (none overlaps Cleanup or the teardown loop), and the
\* watchdog record is never mutated again.
C8_WatchdogQuietAfterStop ==
    /\ []((Logged("watchdog", "return") \/ CleanupRunning \/ TeardownRunning) => WdQuiet)
    /\ [][Logged("watchdog", "return") => (wdRec' = wdRec /\ wdLoop' = wdLoop)]_vars

C8_Witness ==
    /\ TeardownRunning
    /\ stopPhase = "busy"
    /\ Logged("watchdog", "return")
    /\ \E n \in Names : wdRec[n] = FailureThreshold
    /\ \E n \in Names : wdRec[n] = 0 /\ n \in Range(CanPorts)

\* C9 (as claimed): while Cleanup closes handles or interfaces are torn down
\* no request handler is in flight and none is newly accepted, also when
\* Shutdown returned an error because the scope expired.
C9_NoRequestDuringCleanup ==
    (CleanupRunning \/ TeardownRunning) => (reqs = {} /\ httpState # "listening")

\* C9 (amended): while Cleanup closes handles or interfaces are torn down no
\* request is newly accepted, and a handler is in flight only if Shutdown
\* returned the error of the expired shutdown scope.
C9_NoRequestUnlessExpired ==
    (CleanupRunning \/ TeardownRunning) =>
        /\ httpState # "listening"
        /\ reqs # {} => (httpRes = "err" /\ ctx = "expired")

C9_Witness ==
    /\ CleanupRunning
    /\ reqs # {}
    /\ httpRes = "err"
    /\ ctx = "expired"

\* C10: for every name, a teardown never runs concurrently with an in-flight
\* bring-up of that name, whichever actor started the bring-up; operations on
\* distinct names run concurrently.
C10_BringUpTeardownExclusive ==
    \A n \in Names :
        /\ ~(n \in teardowns /\ \E b \in bringUps : b[2] = n)
        /\ Cardinality({b \in bringUps : b[2] = n}) <= 1

C10_Witness ==
    \E n, m \in Names :
        /\ n # m
        /\ n \in teardowns
        /\ <<"http", m>> \in bringUps
        /\ \E r \in reqs : r.kind = "setup" /\ r.phase = "bringup"

\* C11: at startup every bring-up of the setup loop finishes before
\* InitializeAll opens a handle, InitializeAll returns before the watchdog
\* polls, and the HTTP server serves only after the watchdog was started; no
\* poll iteration and no inbound request overlaps the setup loop.
C11_StartupOrder ==
    /\ pc \in {"parse", "validate", "components", "list_avail", "setup_loop",
               "setup_busy", "init_all"} =>
           (handles = {} /\ wdLoop = "none" /\ httpState = "none" /\ reqs = {})
    /\ (\E b \in bringUps : b[1] = "startup") =>
           (handles = {} /\ wdLoop = "none" /\ httpState = "none" /\ reqs = {})
    /\ wdLoop # "none" => pc \in {"wait_signal", "stop", "exit"}
    /\ (httpState \in {"spawned", "listening", "failed", "closed"} \/ reqs # {}) =>
           wdLoop # "none"

C11_Witness ==
    /\ pc = "wait_signal"
    /\ handles # {}
    /\ wdLoop = "polling"
    /\ httpState = "listening"
    /\ reqs # {}

\* C13: a failure of GetAvailableInterfaces is only logged: the setup loop
\* still attempts every configured interface and setupCanInterfaces and
\* Initialize go on as they do when the listing succeeds.
C13_ListFailureNotFatal ==
    availErr =>
        /\ pc \in {"setup_loop", "setup_busy", "init_all", "http_setup", "start",
                   "fatal_start"}
        /\ pc \in {"init_all", "http_setup", "start", "fatal_start"} =>
               /\ setupCalls = CanPorts
               /\ \A n \in Range(CanPorts) : setupRes[n] # "none"
               /\ setupErr # "unset"
        /\ pc = "start" => initRes = "ok"

C13_Witness ==
    /\ availErr
    /\ pc = "start"
    /\ CanPorts = AllPorts
    /\ setupCalls = CanPorts
    /\ setupErr = "nil"
    /\ initRes = "ok"

SetupFailed(n) == setupRes[n] = "fail"
SetupOk(n) == setupRes[n] = "ok"

\* C17: setupCanInterfaces returns nil exactly when the list is non-empty and
\* every interface succeeded, the partial error listing exactly the failed
\* names when some succeeded and some failed, and the none-succeeded error
\* when the success count is zero, the empty list included.
C17_SetupClassification ==
    pc \in {"init_all", "http_setup", "start"} =>
        /\ setupErr = "nil" <=>
               (Len(CanPorts) > 0 /\ \A n \in Range(CanPorts) : SetupOk(n))
        /\ setupErr = "partial" <=>
               /\ \E n \in Range(CanPorts) : SetupOk(n)
               /\ \E n \in Range(CanPorts) : SetupFailed(n)
        /\ setupErr = "none_succeeded" <=> ~ \E n \in Range(CanPorts) : SetupOk(n)
        /\ setupErrors = SelectSeq(CanPorts, SetupFailed)

C17_Witness ==
    /\ pc = "init_all"
    /\ setupErr = "partial"
    /\ setupErrors = <<"can0", "can2">>
    /\ SetupOk("can1")

\* C18: on every exit path of main after a successful Initialize, the handles
\* opened are closed and the interfaces brought up are torn down before the
\* process exits, the path where Service.Start fails included.
C18_NoExitWithoutTeardown ==
    (pc \in {"exit", "fatal_start"} /\ initRes = "ok") =>
        /\ handles = {}
        /\ \A n \in Range(CanPorts) : SetupOk(n) => tdRes[n] # "none"

\* C19: when Watchdog.Start fails, Service.Start returns the error without
\* spawning the HTTP server or the node finder; the server listens only when
\* the watchdog was started, and Watchdog.Start is called at most once.
C19_NoServerWithoutWatchdog ==
    /\ pc = "fatal_start" => (wdLoop = "none" /\ httpState = "configured" /\ ~nodeFinder)
    /\ (httpState \in {"spawned", "listening", "failed"} \/ nodeFinder) =>
           (wdLoop # "none" /\ wdStarts = 1)
    /\ wdStarts <= 1

C19_Witness ==
    /\ pc = "fatal_start"
    /\ wdStarts = 1
    /\ httpState = "configured"
    /\ ~nodeFinder
    /\ handles # {}

RetryStateOk ==
    /\ buRes = "fail" => attempts = MaxAttempts
    /\ buRes = "ok" => attempts \in 1..MaxAttempts
    /\ buRes = "pending" => attempts < MaxAttempts

NoAttemptAfterResult == buRes \in {"ok", "fail"} => attempts' = 0

LoopSeesRetryResult ==
    (pc = "setup_busy" /\ pc' = "setup_loop") =>
        /\ setupRes'[CanPorts[idx]] = "fail" <=> (buRes = "fail" /\ attempts = MaxAttempts)
        /\ setupRes'[CanPorts[idx]] = "ok" <=> buRes = "ok"

\* C15: SetupInterfaceWithRetry fails only after exactly MaxAttempts failed
\* attempts, and stops retrying at the first attempt that succeeds.
C15_RetryExactlyMaxAttempts ==
    /\ []RetryStateOk
    /\ [][NoAttemptAfterResult]_vars
    /\ [][LoopSeesRetryResult]_vars

C15_Witness ==
    /\ pc = "setup_busy"
    /\ buRes = "fail"
    /\ attempts = MaxAttempts

OthersHealthy ==
    \A n \in Names \ {DownName} : wdRec[n] = 0 /\ WdState(n) = "HEALTHY"

\* every poll of the failing interface counts one more consecutive failure
DownPollCounts ==
    (wdLoop = "polling" /\ wdLoop' = "polling" /\ wdIdx' = wdIdx + 1
        /\ CanPorts[wdIdx] = DownName) =>
        (wdRec'[DownName] = wdRec[DownName] + 1 /\ wdRec'[DownName] <= FailureThreshold)

\* HEALTHY -> SUSPECT -> FAILED, and FAILED is left only through recovery
DownStateMachine ==
    /\ WdState(DownName) = "HEALTHY" => WdState(DownName)' \in {"HEALTHY", "SUSPECT"}
    /\ WdState(DownName) = "SUSPECT" => WdState(DownName)' \in {"SUSPECT", "FAILED"}
    /\ WdState(DownName) = "FAILED" => WdState(DownName)' \in {"FAILED", "RECOVERING"}

\* an iteration visits the interfaces one by one and ends after the last
EveryInterfacePolled ==
    /\ (wdLoop = "polling" /\ wdLoop' = "idle") => wdIdx > Len(CanPorts)
    /\ (wdLoop \in {"polling", "recovering"} /\ wdIdx' # wdIdx) => wdIdx' = wdIdx + 1
    /\ (wdLoop = "idle" /\ wdLoop' = "polling") => wdIdx' = 1

\* C14: with three interfaces of which one reports DOWN on every poll, that
\* interface goes HEALTHY -> SUSPECT -> FAILED, one failure per poll cycle,
\* while the other two stay HEALTHY and are polled in every iteration.
C14_WatchdogIsolation ==
    /\ []OthersHealthy
    /\ [][DownPollCounts]_vars
    /\ [][DownStateMachine]_vars
    /\ [][EveryInterfacePolled]_vars

C14_Witness ==
    /\ WdState(DownName) = "FAILED"
    /\ OthersHealthy
    /\ wdLoop = "polling"
    /\ wdIdx > Len(CanPorts)
    /\ Len(CanPorts) = 3

componentVars ==
    <<CanPorts, pc, idx, initVars, handles, lockVars, wdVars, httpState, reqs,
      ctx, stopVars, startVars, retryVars>>

StatusShape ==
    /\ statusOut.status \in {"none", "not_initialized", "running"}
    /\ statusOut.status = "not_initialized" => ~MonitorSet
    /\ statusOut.status = "running" =>
         /\ MonitorSet
         /\ DOMAIN statusOut.interfaceStates = Range(CanPorts)
         /\ \A n \in Range(CanPorts) :
              /\ statusOut.interfaceStates[n].kind = "error" <=> statusOut.queries[n] = "error"
              /\ statusOut.interfaceStates[n].kind = "state" <=> statusOut.queries[n] # "error"
              /\ statusOut.queries[n] = "up" => statusOut.interfaceStates[n].isUp
              /\ statusOut.queries[n] = "down" => ~statusOut.interfaceStates[n].isUp
         /\ statusOut.activeInterfaces \subseteq Range(CanPorts)
         /\ handles \subseteq statusOut.activeInterfaces
         /\ statusOut.watchdogRunning = (wdLoop \in {"idle", "polling", "recovering"})

StatusReadOnly == statusOut' # statusOut => UNCHANGED componentVars

\* C12: GetStatus returns a result in every service state ("not_initialized"
\* before the monitor exists, else "running"), with exactly one entry per
\* configured interface (the state, or an error entry when the query failed),
\* and it changes no component state.
C12_StatusAlwaysSucceeds ==
    /\ [](StatusShape /\ ENABLED GetStatus)
    /\ [][StatusReadOnly]_vars

C12_Witness ==
    /\ statusOut.status = "running"
    /\ CanPorts = AllPorts
    /\ statusOut.queries = [n \in Names |-> IF n = "can1" THEN "error" ELSE "up"]
    /\ statusOut.interfaceStates["can1"].kind = "error"
    /\ statusOut.interfaceStates["can0"].kind = "state"

AtMostOneLive == \A n \in Names : Cardinality(LiveOf(n)) <= 1

\* With no mutation in flight the entries and the open handles agree.
RegistryMatchesLive ==
    regLock = "none" => live = {<<n, registry[n]>> : n \in {m \in Names : registry[m] # 0}}

\* A read returns the one live handle of the name, or none when the name has
\* no live handle.
ReadSeesWholeEntry ==
    lastRead' # lastRead =>
        /\ lastRead'.handle = 0 => LiveOf(lastRead'.name) = {}
        /\ lastRead'.handle # 0 => LiveOf(lastRead'.name) = {<<lastRead'.name, lastRead'.handle>>}
        /\ (roPc = "idle" /\ lastRead'.name = roName /\ roOld # 0) =>
              lastRead'.handle # roOld

\* C16: at most one live handle exists per interface name under every
\* interleaving of InitializeAll, Reopen, Cleanup and reads, and a read never
\* returns a half-updated entry: it returns the handle from before a Reopen
\* or the one from after it.
C16_OneLiveHandlePerName ==
    /\ [](AtMostOneLive /\ RegistryMatchesLive)
    /\ [][ReadSeesWholeEntry]_vars

C16_Witness ==
    /\ roPc = "idle"
    /\ roOld # 0
    /\ lastRead.name = roName
    /\ lastRead.handle > roOld
    /\ lastRead.handle = registry[roName]
    /\ live = {<<roName, lastRead.handle>>}

====
